---- MODULE Spec2Model ----
(***************************************************************************)
(* Model of ironic/drivers/modules/fake.py: the fake driver interfaces     *)
(* FakePower, FakeDeploy, FakeVendorA, FakeVendorB, FakeConsole and        *)
(* FakeManagement, called in any order on one task whose node carries a    *)
(* power_state field.                                                      *)
(*                                                                         *)
(* Python values are tagged records (type, string payload, numeric         *)
(* payload) so that equality, truthiness and %s formatting are computed    *)
(* the way the interpreter computes them.  Dictionaries are sets of        *)
(* <<key, value>> pairs, lists are sequences.                              *)
(***************************************************************************)
EXTENDS Integers, Sequences, FiniteSets, TLC

VARIABLES node, op, args, result, error, message, prev, init_power_state, last_set

vars == <<node, op, args, result, error, message, prev, init_power_state, last_set>>

(* Largest integer offered as a (non-string) argument value. *)
MaxInt == 1

----------------------------------------------------------------------------
(* Python values *)

PyNone == [t |-> "NoneType", s |-> "", n |-> 0]
PyStr(x) == [t |-> "str", s |-> x, n |-> 0]
PyInt(i) == [t |-> "int", s |-> "", n |-> i]
PyBool(b) == [t |-> "bool", s |-> "", n |-> IF b THEN 1 ELSE 0]

(* a == b : numbers (bool included) compare by value, the rest by type and payload *)
PyEq(a, b) ==
    IF a.t \in {"int", "bool"} /\ b.t \in {"int", "bool"}
    THEN a.n = b.n
    ELSE a = b

(* bool(a), as used by `not bar` *)
PyTruthy(a) ==
    CASE a.t = "NoneType" -> FALSE
      [] a.t = "str" -> a.s # ""
      [] OTHER -> a.n # 0

(* "%s" % a *)
PyFormat(a) ==
    CASE a.t = "NoneType" -> "None"
      [] a.t = "str" -> a.s
      [] a.t = "bool" -> (IF a.n = 1 THEN "True" ELSE "False")
      [] OTHER -> ToString(a.n)

(* x in [l1, l2, ...] *)
PyIn(x, list) == \E i \in 1..Len(list) : PyEq(x, list[i])

(* kwargs.get(key): the value stored under key, None when the key is absent *)
DictGet(d, key) ==
    IF \E p \in d : p[1] = key
    THEN (CHOOSE p \in d : p[1] = key)[2]
    ELSE PyNone

----------------------------------------------------------------------------
(* Constants of ironic.common.states and ironic.common.boot_devices *)

POWER_ON == PyStr("power on")
POWER_OFF == PyStr("power off")
DEPLOYDONE == PyStr("deploy done")
DELETED == PyStr("deleted")
PXE == PyStr("pxe")

(* Exception classes of ironic.common.exception, and "no exception" *)
NoError == "none"
InvalidParameterValue == "InvalidParameterValue"
MissingParameterValue == "MissingParameterValue"

----------------------------------------------------------------------------
(* Inputs *)

Ints == {PyInt(i) : i \in 0..MaxInt}

(* power_state of the node as the conductor hands it over *)
InitialPowerStates == {PyNone, POWER_ON, POWER_OFF, PyStr("error")}

(* arguments offered to set_power_state *)
PowerArgs == {POWER_ON, POWER_OFF, PyStr(""), PyStr("rebooting"), PyNone} \cup Ints

(* arguments offered to set_boot_device *)
DeviceArgs == {PXE, PyStr("disk"), PyStr(""), PyNone}

(* method names offered to the vendor validate() *)
MethodArgs == {"first_method", "second_method", "third_method_sync", "unknown_method"}

(* values offered for the vendor parameter bar *)
BarArgs == {PyNone, PyStr(""), PyStr("baz"), PyStr("kazoo"), PyStr("meow")} \cup Ints

(* **kwargs offered to the vendor validate(): bar absent or present, alone or next to *)
(* an unrelated parameter foo *)
KwargsArgs ==
    {{}} \cup {{<<"bar", v>>} : v \in BarArgs}
         \cup {{<<"foo", PyStr("x")>>}, {<<"foo", PyStr("x")>>, <<"bar", PyStr("baz")>>}}

HttpMethods == {"POST", "GET"}

NoArgs == <<>>

----------------------------------------------------------------------------
(* History: the call that came right before the current one, kept with its arguments *)
(* when it was one of the two setters *)
Setters == {"FakePower.set_power_state", "FakeManagement.set_boot_device"}

Preceding ==
    IF op \in Setters
    THEN [op |-> op, args |-> args, error |-> error]
    ELSE [op |-> "other", args |-> NoArgs, error |-> error]

(* Outcome of a call: a normal return (None when the body is `pass`) or a raise *)

Returns(o, a, r) ==
    /\ op' = o
    /\ args' = a
    /\ result' = r
    /\ error' = NoError
    /\ message' = ""
    /\ prev' = Preceding
    /\ UNCHANGED init_power_state

Raises(o, a, e, m) ==
    /\ op' = o
    /\ args' = a
    /\ result' = PyNone
    /\ error' = e
    /\ message' = m
    /\ prev' = Preceding
    /\ UNCHANGED init_power_state

Init ==
    /\ node \in {[power_state |-> p] : p \in InitialPowerStates}
    /\ init_power_state = node.power_state
    /\ last_set = [set |-> FALSE, value |-> PyNone]
    /\ op = "init"
    /\ args = NoArgs
    /\ result = PyNone
    /\ error = NoError
    /\ message = ""
    /\ prev = [op |-> "none", args |-> NoArgs, error |-> NoError]

----------------------------------------------------------------------------
(* FakePower *)

FakePower_get_properties ==
    /\ Returns("FakePower.get_properties", NoArgs, {})
    /\ UNCHANGED <<node, last_set>>

FakePower_validate ==
    /\ Returns("FakePower.validate", NoArgs, PyNone)
    /\ UNCHANGED <<node, last_set>>

get_power_state ==
    /\ Returns("FakePower.get_power_state", NoArgs, node.power_state)
    /\ UNCHANGED <<node, last_set>>

(* Variants of set_power_state with a slip in the check, used to test the properties *)
set_power_state_unchecked(power_state) ==
    /\ Returns("FakePower.set_power_state", [power_state |-> power_state], PyNone)
    /\ node' = [node EXCEPT !.power_state = power_state]
    /\ last_set' = [set |-> TRUE, value |-> power_state]

set_power_state_only_on(power_state) ==
    IF ~PyIn(power_state, <<POWER_ON>>)
    THEN /\ Raises("FakePower.set_power_state", [power_state |-> power_state],
                   InvalidParameterValue,
                   "set_power_state called with an invalid power state: "
                       \o PyFormat(power_state) \o ".")
         /\ UNCHANGED <<node, last_set>>
    ELSE /\ Returns("FakePower.set_power_state", [power_state |-> power_state], PyNone)
         /\ node' = [node EXCEPT !.power_state = power_state]
         /\ last_set' = [set |-> TRUE, value |-> power_state]

set_power_state_assign_first(power_state) ==
    IF ~PyIn(power_state, <<POWER_ON, POWER_OFF>>)
    THEN /\ Raises("FakePower.set_power_state", [power_state |-> power_state],
                   InvalidParameterValue,
                   "set_power_state called with an invalid power state: "
                       \o PyFormat(power_state) \o ".")
         /\ node' = [node EXCEPT !.power_state = power_state]
         /\ UNCHANGED last_set
    ELSE /\ Returns("FakePower.set_power_state", [power_state |-> power_state], PyNone)
         /\ node' = [node EXCEPT !.power_state = power_state]
         /\ last_set' = [set |-> TRUE, value |-> power_state]

set_power_state(power_state) ==
    IF ~PyIn(power_state, <<POWER_ON, POWER_OFF>>)
    THEN /\ Raises("FakePower.set_power_state", [power_state |-> power_state],
                   InvalidParameterValue,
                   "set_power_state called with an invalid power state: "
                       \o PyFormat(power_state) \o ".")
         /\ UNCHANGED <<node, last_set>>
    ELSE /\ Returns("FakePower.set_power_state", [power_state |-> power_state], PyNone)
         /\ node' = [node EXCEPT !.power_state = power_state]
         /\ last_set' = [set |-> TRUE, value |-> power_state]

(* Variant of reboot that simulates the power cycle on the node *)
reboot_power_cycles ==
    /\ Returns("FakePower.reboot", NoArgs, PyNone)
    /\ node' = [node EXCEPT !.power_state = POWER_ON]
    /\ UNCHANGED last_set

reboot ==
    /\ Returns("FakePower.reboot", NoArgs, PyNone)
    /\ UNCHANGED <<node, last_set>>

----------------------------------------------------------------------------
(* FakeDeploy *)

FakeDeploy_get_properties ==
    /\ Returns("FakeDeploy.get_properties", NoArgs, {})
    /\ UNCHANGED <<node, last_set>>

FakeDeploy_validate ==
    /\ Returns("FakeDeploy.validate", NoArgs, PyNone)
    /\ UNCHANGED <<node, last_set>>

deploy ==
    /\ Returns("FakeDeploy.deploy", NoArgs, DEPLOYDONE)
    /\ UNCHANGED <<node, last_set>>

(* Variant of tear_down that returns the deploy marker *)
tear_down_deploy_marker ==
    /\ Returns("FakeDeploy.tear_down", NoArgs, DEPLOYDONE)
    /\ UNCHANGED <<node, last_set>>

tear_down ==
    /\ Returns("FakeDeploy.tear_down", NoArgs, DELETED)
    /\ UNCHANGED <<node, last_set>>

prepare ==
    /\ Returns("FakeDeploy.prepare", NoArgs, PyNone)
    /\ UNCHANGED <<node, last_set>>

clean_up ==
    /\ Returns("FakeDeploy.clean_up", NoArgs, PyNone)
    /\ UNCHANGED <<node, last_set>>

take_over ==
    /\ Returns("FakeDeploy.take_over", NoArgs, PyNone)
    /\ UNCHANGED <<node, last_set>>

----------------------------------------------------------------------------
(* FakeVendorA *)

FakeVendorA_get_properties ==
    /\ Returns("FakeVendorA.get_properties", NoArgs,
               {<<"A1", PyStr("A1 description. Required.")>>,
                <<"A2", PyStr("A2 description. Optional.")>>})
    /\ UNCHANGED <<node, last_set>>

(* Variant of validate that only looks for the key, not for a truthy value *)
FakeVendorA_validate_key_only(method, kwargs) ==
    /\ IF method = "first_method" /\ ~(\E p \in kwargs : p[1] = "bar")
       THEN Raises("FakeVendorA.validate", [method |-> method, kwargs |-> kwargs],
                   MissingParameterValue,
                   "Parameter 'bar' not passed to method 'first_method'.")
       ELSE Returns("FakeVendorA.validate", [method |-> method, kwargs |-> kwargs], PyNone)
    /\ UNCHANGED <<node, last_set>>

FakeVendorA_validate(method, kwargs) ==
    /\ IF method = "first_method" /\ ~PyTruthy(DictGet(kwargs, "bar"))
       THEN Raises("FakeVendorA.validate", [method |-> method, kwargs |-> kwargs],
                   MissingParameterValue,
                   "Parameter 'bar' not passed to method 'first_method'.")
       ELSE Returns("FakeVendorA.validate", [method |-> method, kwargs |-> kwargs], PyNone)
    /\ UNCHANGED <<node, last_set>>

first_method(http_method, bar) ==
    /\ Returns("FakeVendorA.first_method", [http_method |-> http_method, bar |-> bar],
               IF PyEq(bar, PyStr("baz")) THEN PyBool(TRUE) ELSE PyBool(FALSE))
    /\ UNCHANGED <<node, last_set>>

----------------------------------------------------------------------------
(* FakeVendorB *)

FakeVendorB_get_properties ==
    /\ Returns("FakeVendorB.get_properties", NoArgs,
               {<<"B1", PyStr("B1 description. Required.")>>,
                <<"B2", PyStr("B2 description. Required.")>>})
    /\ UNCHANGED <<node, last_set>>

(* Variant of validate with the method name fixed in the message *)
FakeVendorB_validate_fixed_message(method, kwargs) ==
    /\ IF method \in {"second_method", "third_method_sync"}
          /\ ~PyTruthy(DictGet(kwargs, "bar"))
       THEN Raises("FakeVendorB.validate", [method |-> method, kwargs |-> kwargs],
                   MissingParameterValue,
                   "Parameter 'bar' not passed to method 'second_method'.")
       ELSE Returns("FakeVendorB.validate", [method |-> method, kwargs |-> kwargs], PyNone)
    /\ UNCHANGED <<node, last_set>>

FakeVendorB_validate(method, kwargs) ==
    /\ IF method \in {"second_method", "third_method_sync"}
          /\ ~PyTruthy(DictGet(kwargs, "bar"))
       THEN Raises("FakeVendorB.validate", [method |-> method, kwargs |-> kwargs],
                   MissingParameterValue,
                   "Parameter 'bar' not passed to method '" \o method \o "'.")
       ELSE Returns("FakeVendorB.validate", [method |-> method, kwargs |-> kwargs], PyNone)
    /\ UNCHANGED <<node, last_set>>

(* Variant of second_method that tests bar for truth instead of comparing it *)
second_method_truthy(http_method, bar) ==
    /\ Returns("FakeVendorB.second_method", [http_method |-> http_method, bar |-> bar],
               IF PyTruthy(bar) THEN PyBool(TRUE) ELSE PyBool(FALSE))
    /\ UNCHANGED <<node, last_set>>

second_method(http_method, bar) ==
    /\ Returns("FakeVendorB.second_method", [http_method |-> http_method, bar |-> bar],
               IF PyEq(bar, PyStr("kazoo")) THEN PyBool(TRUE) ELSE PyBool(FALSE))
    /\ UNCHANGED <<node, last_set>>

third_method_sync(http_method, bar) ==
    /\ Returns("FakeVendorB.third_method_sync", [http_method |-> http_method, bar |-> bar],
               IF PyEq(bar, PyStr("meow")) THEN PyBool(TRUE) ELSE PyBool(FALSE))
    /\ UNCHANGED <<node, last_set>>

----------------------------------------------------------------------------
(* FakeConsole *)

FakeConsole_get_properties ==
    /\ Returns("FakeConsole.get_properties", NoArgs, {})
    /\ UNCHANGED <<node, last_set>>

FakeConsole_validate ==
    /\ Returns("FakeConsole.validate", NoArgs, PyNone)
    /\ UNCHANGED <<node, last_set>>

start_console ==
    /\ Returns("FakeConsole.start_console", NoArgs, PyNone)
    /\ UNCHANGED <<node, last_set>>

stop_console ==
    /\ Returns("FakeConsole.stop_console", NoArgs, PyNone)
    /\ UNCHANGED <<node, last_set>>

get_console ==
    /\ Returns("FakeConsole.get_console", NoArgs, {})
    /\ UNCHANGED <<node, last_set>>

----------------------------------------------------------------------------
(* FakeManagement *)

FakeManagement_get_properties ==
    /\ Returns("FakeManagement.get_properties", NoArgs, {})
    /\ UNCHANGED <<node, last_set>>

FakeManagement_validate ==
    /\ Returns("FakeManagement.validate", NoArgs, PyNone)
    /\ UNCHANGED <<node, last_set>>

(* Variant of the supported list that also offers the disk *)
supported_boot_devices_with_disk == <<PXE, PyStr("disk")>>

(* the list the method returns; set_boot_device calls it as well *)
supported_boot_devices == <<PXE>>

get_supported_boot_devices ==
    /\ Returns("FakeManagement.get_supported_boot_devices", NoArgs, supported_boot_devices)
    /\ UNCHANGED <<node, last_set>>

set_boot_device(device, persistent) ==
    /\ IF ~PyIn(device, supported_boot_devices)
       THEN Raises("FakeManagement.set_boot_device",
                   [device |-> device, persistent |-> persistent],
                   InvalidParameterValue,
                   "Invalid boot device " \o PyFormat(device) \o " specified.")
       ELSE Returns("FakeManagement.set_boot_device",
                    [device |-> device, persistent |-> persistent], PyNone)
    /\ UNCHANGED <<node, last_set>>

(* Variant of the record that reports the persistence last requested with success *)
boot_device_record_remembered ==
    [boot_device |-> PXE,
     persistent |-> /\ prev.op = "FakeManagement.set_boot_device"
                    /\ prev.error = NoError
                    /\ prev.args.persistent]

boot_device_record == [boot_device |-> PXE, persistent |-> FALSE]

get_boot_device ==
    /\ Returns("FakeManagement.get_boot_device", NoArgs, boot_device_record)
    /\ UNCHANGED <<node, last_set>>

get_sensors_data ==
    /\ Returns("FakeManagement.get_sensors_data", NoArgs, {})
    /\ UNCHANGED <<node, last_set>>

----------------------------------------------------------------------------

Next ==
    \/ FakePower_get_properties
    \/ FakePower_validate
    \/ get_power_state
    \/ \E power_state \in PowerArgs : set_power_state(power_state)
    \/ reboot
    \/ FakeDeploy_get_properties
    \/ FakeDeploy_validate
    \/ deploy
    \/ tear_down
    \/ prepare
    \/ clean_up
    \/ take_over
    \/ FakeVendorA_get_properties
    \/ \E method \in MethodArgs, kwargs \in KwargsArgs : FakeVendorA_validate(method, kwargs)
    \/ \E http_method \in HttpMethods, bar \in BarArgs : first_method(http_method, bar)
    \/ FakeVendorB_get_properties
    \/ \E method \in MethodArgs, kwargs \in KwargsArgs : FakeVendorB_validate(method, kwargs)
    \/ \E http_method \in HttpMethods, bar \in BarArgs : second_method(http_method, bar)
    \/ \E http_method \in HttpMethods, bar \in BarArgs : third_method_sync(http_method, bar)
    \/ FakeConsole_get_properties
    \/ FakeConsole_validate
    \/ start_console
    \/ stop_console
    \/ get_console
    \/ FakeManagement_get_properties
    \/ FakeManagement_validate
    \/ get_supported_boot_devices
    \/ \E device \in DeviceArgs, persistent \in BOOLEAN : set_boot_device(device, persistent)
    \/ get_boot_device
    \/ get_sensors_data

Spec == Init /\ [][Next]_vars

----------------------------------------------------------------------------
(* Properties *)

CanonicalPowerStates == {PyStr("power on"), PyStr("power off")}

(* the parameter bar is absent from params, or present with a falsy value *)
BarAbsentOrFalsy(params) ==
    \/ ~(\E p \in params : p[1] = "bar")
    \/ \E p \in params : p[1] = "bar" /\ p[2] \in {PyNone, PyStr(""), PyInt(0), PyBool(FALSE)}

(* C1: after any sequence of set_power_state calls, valid or not, the node's   *)
(* power_state is its initial value or one of "power on" / "power off".        *)
C1_PowerStateInitialOrCanonical ==
    node.power_state \in {init_power_state} \cup CanonicalPowerStates

C1_Witness ==
    /\ op = "FakePower.set_power_state"
    /\ args.power_state = PyStr("rebooting")
    /\ error = InvalidParameterValue
    /\ prev.op = "FakePower.set_power_state"
    /\ prev.error = NoError
    /\ node.power_state = PyStr("power off")
    /\ init_power_state = PyStr("power on")

(* C2: set_power_state with "power on" or "power off" signals no error, and a  *)
(* get_power_state called right after it returns that argument.                *)
C2_SetThenGet ==
    /\ (op = "FakePower.set_power_state" /\ args.power_state \in CanonicalPowerStates)
          => error = NoError
    /\ (/\ op = "FakePower.get_power_state"
        /\ prev.op = "FakePower.set_power_state"
        /\ prev.args.power_state \in CanonicalPowerStates)
          => (prev.error = NoError /\ result = prev.args.power_state)

C2_Witness ==
    /\ op = "FakePower.get_power_state"
    /\ prev.op = "FakePower.set_power_state"
    /\ prev.args.power_state = PyStr("power off")
    /\ result = PyStr("power off")
    /\ init_power_state = PyStr("power on")

(* C3: set_power_state with any argument other than the two canonical values   *)
(* fails with InvalidParameterValue and leaves the stored power_state as it    *)
(* was before the call.                                                        *)
C3_InvalidRejectedUnchanged ==
    [][(op' = "FakePower.set_power_state" /\ args'.power_state \notin CanonicalPowerStates)
          => (error' = InvalidParameterValue /\ node'.power_state = node.power_state)]_vars

C3_Witness ==
    /\ op = "FakePower.set_power_state"
    /\ args.power_state = PyStr("")
    /\ error = InvalidParameterValue
    /\ node.power_state = PyStr("power on")
    /\ init_power_state = PyNone

(* C4: get_supported_boot_devices returns the one-element list ["pxe"];        *)
(* set_boot_device succeeds exactly when device is "pxe", whatever persistent  *)
(* is, and fails with InvalidParameterValue for every other device.            *)
C4_BootDeviceAccepted ==
    /\ op = "FakeManagement.get_supported_boot_devices"
          => (result = <<PyStr("pxe")>> /\ error = NoError)
    /\ op = "FakeManagement.set_boot_device"
          => /\ error = NoError <=> args.device = PyStr("pxe")
             /\ args.device # PyStr("pxe") => error = InvalidParameterValue

C4_Witness ==
    /\ op = "FakeManagement.set_boot_device"
    /\ args.device = PyStr("disk")
    /\ args.persistent
    /\ error = InvalidParameterValue
    /\ prev.op = "FakeManagement.set_boot_device"
    /\ prev.args.device = PyStr("pxe")
    /\ prev.error = NoError

(* C5: get_boot_device returns (boot_device = "pxe", persistent = false) in    *)
(* every state, whatever set_boot_device calls came before.                    *)
C5_BootDeviceFixed ==
    op = "FakeManagement.get_boot_device"
        => (result = [boot_device |-> PyStr("pxe"), persistent |-> FALSE] /\ error = NoError)

C5_Witness ==
    /\ op = "FakeManagement.get_boot_device"
    /\ prev.op = "FakeManagement.set_boot_device"
    /\ prev.args.device = PyStr("pxe")
    /\ prev.args.persistent
    /\ prev.error = NoError
    /\ result.persistent = FALSE

(* C6: FakeVendorA.validate fails with MissingParameterValue exactly when the  *)
(* method is "first_method" and bar is absent or falsy; in every other case    *)
(* it succeeds.                                                                *)
C6_VendorAValidate ==
    op = "FakeVendorA.validate"
        => /\ error = MissingParameterValue
                <=> (args.method = "first_method" /\ BarAbsentOrFalsy(args.kwargs))
           /\ error \in {NoError, MissingParameterValue}

C6_Witness ==
    /\ op = "FakeVendorA.validate"
    /\ args.method = "first_method"
    /\ args.kwargs = {<<"bar", PyStr("")>>}
    /\ error = MissingParameterValue

(* C7: FakeVendorB.validate fails with MissingParameterValue exactly when the  *)
(* method is "second_method" or "third_method_sync" and bar is absent or       *)
(* falsy, and the message names the method passed; for every other method it   *)
(* succeeds.                                                                   *)
C7_VendorBValidate ==
    op = "FakeVendorB.validate"
        => /\ error = MissingParameterValue
                <=> (/\ args.method \in {"second_method", "third_method_sync"}
                     /\ BarAbsentOrFalsy(args.kwargs))
           /\ error \in {NoError, MissingParameterValue}
           /\ error = MissingParameterValue
                => message = "Parameter 'bar' not passed to method '" \o args.method \o "'."

C7_Witness ==
    /\ op = "FakeVendorB.validate"
    /\ args.method = "third_method_sync"
    /\ args.kwargs = {}
    /\ error = MissingParameterValue
    /\ message = "Parameter 'bar' not passed to method 'third_method_sync'."

(* C8: first_method returns true iff bar is "baz", second_method iff bar is    *)
(* "kazoo", third_method_sync iff bar is "meow"; for every other value they    *)
(* return false and signal no error.                                           *)
C8_VendorMethods ==
    /\ op = "FakeVendorA.first_method"
          => /\ error = NoError
             /\ result = IF args.bar = PyStr("baz") THEN PyBool(TRUE) ELSE PyBool(FALSE)
    /\ op = "FakeVendorB.second_method"
          => /\ error = NoError
             /\ result = IF args.bar = PyStr("kazoo") THEN PyBool(TRUE) ELSE PyBool(FALSE)
    /\ op = "FakeVendorB.third_method_sync"
          => /\ error = NoError
             /\ result = IF args.bar = PyStr("meow") THEN PyBool(TRUE) ELSE PyBool(FALSE)

C8_Witness ==
    /\ op = "FakeVendorB.second_method"
    /\ args.bar = PyStr("")
    /\ result = PyBool(FALSE)
    /\ error = NoError

(* C9: deploy returns the "deploy done" marker and tear_down the "deleted"     *)
(* marker in every node state, and neither signals an error.                   *)
C9_DeployMarkers ==
    /\ op = "FakeDeploy.deploy" => (result = PyStr("deploy done") /\ error = NoError)
    /\ op = "FakeDeploy.tear_down" => (result = PyStr("deleted") /\ error = NoError)

C9_Witness ==
    /\ op = "FakeDeploy.tear_down"
    /\ result = PyStr("deleted")
    /\ prev.op = "FakePower.set_power_state"
    /\ prev.error = NoError
    /\ node.power_state = PyStr("power off")
    /\ init_power_state = PyStr("error")

(* C10: only a successful set_power_state changes the node; every other call,  *)
(* and every failing call, leaves power_state as it was, so get_power_state    *)
(* returns the argument of the latest successful set_power_state, or the       *)
(* initial value when there was none.                                          *)
C10_OnlySetPowerStateChangesNode ==
    [][/\ ~(op' = "FakePower.set_power_state" /\ error' = NoError) => node' = node
       /\ (op' = "FakePower.set_power_state" /\ error' = NoError)
             => node'.power_state = args'.power_state
       /\ op' = "FakePower.get_power_state"
             => result' = IF last_set'.set THEN last_set'.value ELSE init_power_state']_vars

C10_Witness ==
    /\ op = "FakePower.get_power_state"
    /\ prev.op = "other"
    /\ last_set.set
    /\ last_set.value = PyStr("power off")
    /\ result = PyStr("power off")
    /\ init_power_state = PyStr("power on")

====
